---- MODULE Spec2Model ----
(***************************************************************************)
(* A model of ics2csv.py: the iCalendar tokenizer (read_icalendar and      *)
(* add_field), the sanitizer (remove_malformed), the field extractor       *)
(* (extract_title_and_link, extract_date), the duplicate detector          *)
(* (check_duplicates), the CSV writer (write_fields_csv) and the pipeline  *)
(* of main.  A Python str is a sequence of one-character strings, a dict   *)
(* is a function from keys (character sequences) to values.                *)
(***************************************************************************)
EXTENDS Integers, Sequences, FiniteSets, TLC

VARIABLES
    pc,                  \* position of main: which call comes next
    error,               \* the exception that ended the run, or "none"
    no_warn_duplicates,  \* args.no_warn_duplicates
    line,                \* read_icalendar: the loop variable
    in_event,            \* read_icalendar: in_event
    sublevel,            \* read_icalendar: sublevel
    event,               \* read_icalendar: the record under construction
    field,               \* read_icalendar: pending key, None or Some(key)
    text,                \* read_icalendar: pending raw text
    events,              \* the Event List
    nlines,              \* number of lines read from the file so far
    diag,                \* messages printed so far, in order
    out                  \* lines of the output file; <<>> while not written

vars == <<pc, error, no_warn_duplicates, line, in_event, sublevel, event,
          field, text, events, nlines, diag, out>>

tokenizer == <<line, in_event, sublevel, event, field, text, nlines>>

----------------------------------------------------------------------------
(* Bounds of the model. *)

MaxLines == 6    \* lines read from the input file in one run
MaxEvents == 3   \* length of the event lists handed to a single stage
MaxStr == 2      \* length of the free parts T, L, D of a description

----------------------------------------------------------------------------
(* Python str and dict operations used by the program. *)

NoneField == <<>>
Some(k) == <<k>>

EmptyDict == <<>>

Has(d, k) == k \in DOMAIN d

\* dict.get(k, '')
Get(d, k) == IF k \in DOMAIN d THEN d[k] ELSE <<>>

\* d[k] = v
Put(d, k, v) == [x \in (DOMAIN d) \cup {k} |-> IF x = k THEN v ELSE d[x]]

Max(a, b) == IF a > b THEN a ELSE b
Min(a, b) == IF a < b THEN a ELSE b

\* s.startswith(p)
StartsWith(s, p) == Len(s) >= Len(p) /\ SubSeq(s, 1, Len(p)) = p

\* s[lo:hi] with Python's treatment of negative and out-of-range offsets
PySlice(s, lo, hi) ==
    LET n == Len(s)
        l == IF lo < 0 THEN Max(lo + n, 0) ELSE Min(lo, n)
        h == IF hi < 0 THEN Max(hi + n, 0) ELSE Min(hi, n)
    IN  IF l >= h THEN <<>> ELSE SubSeq(s, l + 1, h)

\* s[lo:]
PySliceFrom(s, lo) == PySlice(s, lo, Len(s))

\* s.find(p): 0-based offset of the first occurrence of p, or -1
Find(s, p) ==
    LET hits == {i \in 0..(Len(s) - Len(p)) : SubSeq(s, i + 1, i + Len(p)) = p}
    IN  IF hits = {} THEN -1 ELSE CHOOSE i \in hits : \A j \in hits : i <= j

\* s.replace(p, r) for a non-empty p: non-overlapping, left to right
RECURSIVE Replace(_, _, _)
Replace(s, p, r) ==
    IF Len(s) < Len(p) THEN s
    ELSE IF SubSeq(s, 1, Len(p)) = p
         THEN r \o Replace(SubSeq(s, Len(p) + 1, Len(s)), p, r)
         ELSE <<Head(s)>> \o Replace(Tail(s), p, r)

\* s.rstrip(cs) and s.lstrip(cs) for a set of characters cs
RECURSIVE RStrip(_, _)
RStrip(s, cs) ==
    IF s # <<>> /\ s[Len(s)] \in cs THEN RStrip(SubSeq(s, 1, Len(s) - 1), cs) ELSE s

RECURSIVE LStrip(_, _)
LStrip(s, cs) ==
    IF s # <<>> /\ Head(s) \in cs THEN LStrip(Tail(s), cs) ELSE s

\* s.strip(cs)
StripChars(s, cs) == LStrip(RStrip(s, cs), cs)

\* the ASCII characters str.strip() removes
Whitespace == {" ", "\t", "\n", "\r", "\f"}

\* s.strip()
Strip(s) == StripChars(s, Whitespace)

\* sep.join(xs)
RECURSIVE Join(_, _)
Join(sep, xs) ==
    IF xs = <<>> THEN <<>>
    ELSE IF Len(xs) = 1 THEN xs[1]
    ELSE xs[1] \o sep \o Join(sep, Tail(xs))

----------------------------------------------------------------------------
(* String literals of the program. *)

BEGIN_VEVENT == <<"B","E","G","I","N",":","V","E","V","E","N","T">>
END_VEVENT == <<"E","N","D",":","V","E","V","E","N","T">>
BEGIN_ == <<"B","E","G","I","N",":">>
END_ == <<"E","N","D",":">>
DESCRIPTION == <<"D","E","S","C","R","I","P","T","I","O","N">>
TITLE == <<"T","I","T","L","E">>
LINK == <<"L","I","N","K">>
DATE == <<"D","A","T","E">>
LOCATION == <<"L","O","C","A","T","I","O","N">>
DTSTART_VALUE_DATE ==
    <<"D","T","S","T","A","R","T",";","V","A","L","U","E","=","D","A","T","E">>
DTSTART_TZID_MADRID ==
    <<"D","T","S","T","A","R","T",";","T","Z","I","D","=",
      "E","u","r","o","p","e","/","M","a","d","r","i","d">>
DTSTART == <<"D","T","S","T","A","R","T">>
A_HREF == <<"<","a"," ","h","r","e","f","=">>
HREF == <<"h","r","e","f","=">>
A_CLOSE == <<"<","/","a",">">>

----------------------------------------------------------------------------
(* add_field and read_icalendar. *)

\* the unescaping of a parser that unescapes what it has already unescaped
unescape_twice(t) ==
    Replace(Replace(Replace(Replace(t, <<"\\", ",">>, <<",">>), <<"\\", "n">>, <<"\n">>),
                    <<"\\", ",">>, <<",">>), <<"\\", "n">>, <<"\n">>)

\* text.replace('\\,', ',').replace('\\n', '\n')
unescape(t) == Replace(Replace(t, <<"\\", ",">>, <<",">>), <<"\\", "n">>, <<"\n">>)

\* the flush of a tokenizer that loses the pending field
add_field_dropped(ev, f, t) == ev

\* add_field(event, field, text)
add_field(ev, f, t) ==
    IF f # NoneField THEN Put(ev, f[1], unescape(t)) ELSE ev

\* the split of a lenient parser: a line without a ':' is a key with no text
SplitLenient(l) ==
    LET s == RStrip(l, {"\n"})
        i == Find(s, <<":">>)
    IN  IF i = -1 THEN <<s, <<>>>> ELSE <<PySlice(s, 0, i), PySliceFrom(s, i + 1)>>

\* line.rstrip('\n').split(':', 1): <<key, text>>, or <<whole>> without a ':'
Split(l) ==
    LET s == RStrip(l, {"\n"})
        i == Find(s, <<":">>)
    IN  IF i = -1 THEN <<s>> ELSE <<PySlice(s, 0, i), PySliceFrom(s, i + 1)>>

\* the test of a lenient tokenizer that reads properties at any depth
AnyLevel(s) == TRUE

\* elif sublevel == 0
AtTopLevel(s) == s = 0

\* line[1:].rstrip('\n')
Unfolded(l) == RStrip(PySliceFrom(l, 1), {"\n"})

\* The lines the input file is made of.
Lines == {
    <<"B","E","G","I","N",":","V","E","V","E","N","T","\n">>,
    <<"E","N","D",":","V","E","V","E","N","T","\n">>,
    <<"B","E","G","I","N",":","V","A","L","A","R","M","\n">>,
    <<"E","N","D",":","V","A","L","A","R","M","\n">>,
    <<"D","E","S","C","R","I","P","T","I","O","N",":","<","a"," ","h","r","e","f","=",
      "\"","h","t","t","p",":","/","/","x","\"",">","T","a","l","k","<","/","a",">",
      "S","o","m","e"," ","t","a","l","k","\n">>,
    <<"D","E","S","C","R","I","P","T","I","O","N",":","p","l","a","i","n","\n">>,
    <<"D","T","S","T","A","R","T",";","V","A","L","U","E","=","D","A","T","E",":",
      "2","0","2","4","0","2","1","1","\n">>,
    <<"D","T","S","T","A","R","T",":",
      "2","0","2","4","1","2","3","1","T","2","3","3","0","0","0","Z","\n">>,
    <<"L","O","C","A","T","I","O","N",":","M","a","d","r","i","d","\n">>,
    <<" ","a","\\",",","b","\n">>,
    <<"X","-","J","U","N","K","\n">>
}

\* One iteration of the loop of read_icalendar on the line l.
ReadLine(l) ==
    /\ pc = "read"
    /\ nlines < MaxLines
    /\ nlines' = nlines + 1
    /\ line' = l
    /\ IF ~in_event
       THEN /\ in_event' = StartsWith(l, BEGIN_VEVENT)
            /\ UNCHANGED <<sublevel, event, field, text, events, pc, error>>
       ELSE IF StartsWith(l, END_VEVENT)
       THEN /\ events' = Append(events, add_field(event, field, text))
            /\ event' = EmptyDict
            /\ field' = NoneField
            /\ text' = <<>>
            /\ in_event' = FALSE
            /\ UNCHANGED <<sublevel, pc, error>>
       ELSE IF StartsWith(l, BEGIN_)
       THEN /\ event' = add_field(event, field, text)
            /\ sublevel' = sublevel + 1
            /\ UNCHANGED <<in_event, field, text, events, pc, error>>
       ELSE IF StartsWith(l, END_)
       THEN /\ sublevel' = sublevel - 1
            /\ UNCHANGED <<in_event, event, field, text, events, pc, error>>
       ELSE IF AtTopLevel(sublevel)
       THEN IF StartsWith(l, <<" ">>)
            THEN /\ text' = text \o Unfolded(l)
                 /\ UNCHANGED <<in_event, sublevel, event, field, events, pc, error>>
            ELSE /\ event' = add_field(event, field, text)
                 /\ IF Len(Split(l)) = 2
                    THEN /\ field' = Some(Split(l)[1])
                         /\ text' = Split(l)[2]
                         /\ UNCHANGED <<pc, error>>
                    ELSE /\ pc' = "failed"
                         /\ error' = "ValueError"
                         /\ UNCHANGED <<field, text>>
                 /\ UNCHANGED <<in_event, sublevel, events>>
       ELSE UNCHANGED <<in_event, sublevel, event, field, text, events, pc, error>>
    /\ UNCHANGED <<no_warn_duplicates, diag, out>>

\* The file is exhausted: read_icalendar returns events.
EndOfFile ==
    /\ pc = "read"
    /\ pc' = "sanitize"
    /\ UNCHANGED <<error, no_warn_duplicates, tokenizer, events, diag, out>>

----------------------------------------------------------------------------
(* remove_malformed. *)

\* A message printed by the sanitizer or the duplicate detector.
Msg(k, p, o, pv) == [kind |-> k, pos |-> p, of |-> o, preview |-> pv]

NoDescription(ev) == ~Has(ev, DESCRIPTION)

BadDescription(ev) == Has(ev, DESCRIPTION) /\ ~StartsWith(ev[DESCRIPTION], A_HREF)

\* bad_events after the first loop, from 0-based index i on
RECURSIVE bad_events(_, _)
bad_events(evs, i) ==
    IF i >= Len(evs) THEN <<>>
    ELSE (IF NoDescription(evs[i + 1]) \/ BadDescription(evs[i + 1])
          THEN <<i>> ELSE <<>>) \o bad_events(evs, i + 1)

\* the messages of the first loop, from 0-based index i on
RECURSIVE malformed_messages(_, _)
malformed_messages(evs, i) ==
    IF i >= Len(evs) THEN <<>>
    ELSE (IF NoDescription(evs[i + 1])
          THEN <<Msg("NoDescription", i + 1, 0, <<>>)>>
          ELSE IF BadDescription(evs[i + 1])
          THEN <<Msg("BadDescription", i + 1, 0, PySlice(evs[i + 1][DESCRIPTION], 0, 70))>>
          ELSE <<>>) \o malformed_messages(evs, i + 1)

\* events.pop(i) for 0 <= i < len(events)
Pop(evs, i) == SubSeq(evs, 1, i) \o SubSeq(evs, i + 2, Len(evs))

\* bad_events[::-1]
RECURSIVE Reversed(_)
Reversed(s) == IF s = <<>> THEN <<>> ELSE Reversed(Tail(s)) \o <<Head(s)>>

\* for i in idxs: events.pop(i)
RECURSIVE PopEach(_, _)
PopEach(evs, idxs) ==
    IF idxs = <<>> THEN evs ELSE PopEach(Pop(evs, Head(idxs)), Tail(idxs))

\* for i in idxs: events.pop(i), skipping an i past the end of the list
RECURSIVE PopEachInRange(_, _)
PopEachInRange(evs, idxs) ==
    IF idxs = <<>> THEN evs
    ELSE PopEachInRange(IF Head(idxs) < Len(evs) THEN Pop(evs, Head(idxs)) ELSE evs,
                        Tail(idxs))

\* remove_malformed of a program that pops the bad indices in ascending order
remove_malformed_forward(evs) ==
    [events |-> PopEachInRange(evs, bad_events(evs, 0)),
     diag |-> malformed_messages(evs, 0)]

remove_malformed(evs) ==
    [events |-> PopEach(evs, Reversed(bad_events(evs, 0))),
     diag |-> malformed_messages(evs, 0)]

----------------------------------------------------------------------------
(* extract_title_and_link. *)

\* extract_title_and_link of a program that forgets to trim the title
extract_title_and_link_untrimmed(ev) ==
    LET desc == ev[DESCRIPTION]
        link_start == Find(desc, HREF) + 5
        link_end == Find(desc, <<">">>)
        text_end == Find(desc, A_CLOSE)
        e1 == Put(ev, TITLE, PySlice(desc, link_end + 1, text_end))
        e2 == Put(e1, LINK, StripChars(PySlice(desc, link_start, link_end), {"\""}))
    IN  Put(e2, DESCRIPTION, Strip(PySliceFrom(desc, text_end + 4)))

extract_title_and_link(ev) ==
    LET desc == ev[DESCRIPTION]
        link_start == Find(desc, HREF) + 5
        link_end == Find(desc, <<">">>)
        text_end == Find(desc, A_CLOSE)
        e1 == Put(ev, TITLE, Strip(PySlice(desc, link_end + 1, text_end)))
        e2 == Put(e1, LINK, StripChars(PySlice(desc, link_start, link_end), {"\""}))
    IN  Put(e2, DESCRIPTION, Strip(PySliceFrom(desc, text_end + 4)))

----------------------------------------------------------------------------
(* extract_date: datetime.strptime, + timedelta(hours=1), strftime. *)

Digits == <<"0", "1", "2", "3", "4", "5", "6", "7", "8", "9">>

IsDigit(c) == \E d \in 1..10 : Digits[d] = c

DigitOf(c) == (CHOOSE d \in 1..10 : Digits[d] = c) - 1

\* the value of a sequence of decimal digits
RECURSIVE Num(_)
Num(s) == IF s = <<>> THEN 0 ELSE 10 * Num(SubSeq(s, 1, Len(s) - 1)) + DigitOf(s[Len(s)])

AllDigits(s) == \A i \in DOMAIN s : IsDigit(s[i])

IsLeap(y) == (y % 4 = 0 /\ y % 100 # 0) \/ y % 400 = 0

DaysIn(y, m) ==
    IF m = 2 THEN (IF IsLeap(y) THEN 29 ELSE 28)
    ELSE IF m \in {4, 6, 9, 11} THEN 30 ELSE 31

NoDateTime == [ok |-> FALSE, Y |-> 0, m |-> 0, d |-> 0, H |-> 0, M |-> 0]

\* datetime.strptime(s, '%Y%m%dT%H%M%S' + suffix), for an s that has the
\* layout of the format (4+2+2 digits, T, 2+2+2 digits, suffix) or that no
\* reading of the format matches; ok is FALSE where strptime raises ValueError
strptime(s, suffix) ==
    IF /\ Len(s) = 15 + Len(suffix)
       /\ AllDigits(SubSeq(s, 1, 8))
       /\ s[9] = "T"
       /\ AllDigits(SubSeq(s, 10, 15))
       /\ SubSeq(s, 16, Len(s)) = suffix
    THEN LET Y == Num(SubSeq(s, 1, 4))
             m == Num(SubSeq(s, 5, 6))
             d == Num(SubSeq(s, 7, 8))
             H == Num(SubSeq(s, 10, 11))
             M == Num(SubSeq(s, 12, 13))
             S == Num(SubSeq(s, 14, 15))
         IN  IF /\ Y >= 1
                /\ m \in 1..12
                /\ d \in 1..DaysIn(Y, m)
                /\ H \in 0..23
                /\ M \in 0..59
                /\ S \in 0..59
             THEN [ok |-> TRUE, Y |-> Y, m |-> m, d |-> d, H |-> H, M |-> M]
             ELSE NoDateTime
    ELSE NoDateTime

\* the hour added on the clock alone, the date left as it is
plus_one_hour_no_carry(t) == [t EXCEPT !.H = (t.H + 1) % 24]

\* date + timedelta(hours=1); ok is FALSE where the sum raises OverflowError
plus_one_hour(t) ==
    IF t.H < 23 THEN [t EXCEPT !.H = t.H + 1]
    ELSE IF t.d < DaysIn(t.Y, t.m) THEN [t EXCEPT !.H = 0, !.d = t.d + 1]
    ELSE IF t.m < 12 THEN [t EXCEPT !.H = 0, !.d = 1, !.m = t.m + 1]
    ELSE IF t.Y < 9999 THEN [t EXCEPT !.H = 0, !.d = 1, !.m = 1, !.Y = t.Y + 1]
    ELSE NoDateTime

Pad2(n) == <<Digits[(n \div 10) + 1], Digits[(n % 10) + 1]>>

Pad4(n) == Pad2(n \div 100) \o Pad2(n % 100)

\* date.strftime('%d/%m/%Y %H:%M'), for a year of four digits
strftime(t) ==
    Pad2(t.d) \o <<"/">> \o Pad2(t.m) \o <<"/">> \o Pad4(t.Y) \o <<" ">>
        \o Pad2(t.H) \o <<":">> \o Pad2(t.M)

\* The result of a step that may raise: the exception ("none" if it returns)
\* and the value it leaves behind.
Result(e, v) == [err |-> e, val |-> v]

\* extract_date of a program that lets an event without a date through
extract_date_lenient(ev) ==
    IF Has(ev, DTSTART_VALUE_DATE)
    THEN LET date == ev[DTSTART_VALUE_DATE]
         IN  Result("none", Put(ev, DATE, PySlice(date, 6, 8) \o <<"/">>
                         \o PySlice(date, 4, 6) \o <<"/">> \o PySlice(date, 0, 4)))
    ELSE IF Has(ev, DTSTART_TZID_MADRID)
    THEN LET date == strptime(ev[DTSTART_TZID_MADRID], <<>>)
         IN  IF date.ok THEN Result("none", Put(ev, DATE, strftime(date)))
             ELSE Result("ValueError", ev)
    ELSE IF Has(ev, DTSTART)
    THEN LET parsed == strptime(ev[DTSTART], <<"Z">>)
             date == plus_one_hour(parsed)
         IN  IF ~parsed.ok THEN Result("ValueError", ev)
             ELSE IF ~date.ok THEN Result("OverflowError", ev)
             ELSE Result("none", Put(ev, DATE, strftime(date)))
    ELSE Result("none", ev)

\* extract_date of a program that tests the three keys in the reverse order
extract_date_reversed(ev) ==
    IF Has(ev, DTSTART)
    THEN LET parsed == strptime(ev[DTSTART], <<"Z">>)
             date == plus_one_hour(parsed)
         IN  IF ~parsed.ok THEN Result("ValueError", ev)
             ELSE IF ~date.ok THEN Result("OverflowError", ev)
             ELSE Result("none", Put(ev, DATE, strftime(date)))
    ELSE IF Has(ev, DTSTART_TZID_MADRID)
    THEN LET date == strptime(ev[DTSTART_TZID_MADRID], <<>>)
         IN  IF date.ok THEN Result("none", Put(ev, DATE, strftime(date)))
             ELSE Result("ValueError", ev)
    ELSE IF Has(ev, DTSTART_VALUE_DATE)
    THEN LET date == ev[DTSTART_VALUE_DATE]
         IN  Result("none", Put(ev, DATE, PySlice(date, 6, 8) \o <<"/">>
                         \o PySlice(date, 4, 6) \o <<"/">> \o PySlice(date, 0, 4)))
    ELSE Result("RuntimeError", ev)

extract_date(ev) ==
    IF Has(ev, DTSTART_VALUE_DATE)
    THEN LET date == ev[DTSTART_VALUE_DATE]
         IN  Result("none", Put(ev, DATE, PySlice(date, 6, 8) \o <<"/">>
                         \o PySlice(date, 4, 6) \o <<"/">> \o PySlice(date, 0, 4)))
    ELSE IF Has(ev, DTSTART_TZID_MADRID)
    THEN LET date == strptime(ev[DTSTART_TZID_MADRID], <<>>)
         IN  IF date.ok THEN Result("none", Put(ev, DATE, strftime(date)))
             ELSE Result("ValueError", ev)
    ELSE IF Has(ev, DTSTART)
    THEN LET parsed == strptime(ev[DTSTART], <<"Z">>)
             date == plus_one_hour(parsed)
         IN  IF ~parsed.ok THEN Result("ValueError", ev)
             ELSE IF ~date.ok THEN Result("OverflowError", ev)
             ELSE Result("none", Put(ev, DATE, strftime(date)))
    ELSE Result("RuntimeError", ev)

\* extract_fields from the 1-based position i on: the loop stops at the first
\* exception, leaving the records already rewritten as they are
RECURSIVE extract_fields(_, _)
extract_fields(evs, i) ==
    IF i > Len(evs) THEN Result("none", evs)
    ELSE IF ~Has(evs[i], DESCRIPTION) THEN Result("KeyError", evs)
    ELSE LET r == extract_date(extract_title_and_link(evs[i]))
             evs1 == [evs EXCEPT ![i] = r.val]
         IN  IF r.err # "none" THEN Result(r.err, evs1)
             ELSE extract_fields(evs1, i + 1)

----------------------------------------------------------------------------
(* check_duplicates. *)

\* the loop from the 0-based index i on, with the dict seen and the messages
\* printed so far; KeyError where an event has no TITLE or no LOCATION
RECURSIVE check_duplicates(_, _, _, _)
check_duplicates(evs, i, seen, msgs) ==
    IF i >= Len(evs) THEN Result("none", msgs)
    ELSE IF ~Has(evs[i + 1], TITLE) \/ ~Has(evs[i + 1], LOCATION)
    THEN Result("KeyError", msgs)
    ELSE LET identifier == <<evs[i + 1][TITLE], evs[i + 1][LOCATION]>>
         IN  IF Has(seen, identifier)
             THEN check_duplicates(evs, i + 1, seen,
                      Append(msgs, Msg("Duplicate", i + 1, seen[identifier] + 1, <<>>)))
             ELSE check_duplicates(evs, i + 1, Put(seen, identifier, i), msgs)

----------------------------------------------------------------------------
(* write_fields_csv. *)

fields == <<TITLE, DESCRIPTION, DATE, LOCATION, LINK>>

\* "i'" and "o'" stand for the accented letters of the display names
names == << <<"T","i'","t","u","l","o">>,
            <<"D","e","s","c","r","i","p","c","i","o'","n">>,
            <<"F","e","c","h","a">>,
            <<"L","u","g","a","r">>,
            <<"E","n","l","a","c","e">> >>

\* get = lambda event, field: event.get(field, '').replace('"', '""')
get(ev, f) == Replace(Get(ev, f), <<"\"">>, <<"\"", "\"">>)

\* the line written by write(xs)
write(xs) ==
    Join(<<",">>, [i \in DOMAIN xs |-> <<"\"">> \o xs[i] \o <<"\"">>]) \o <<"\n">>

\* the lines of the file after write_fields_csv
write_fields_csv(evs) ==
    <<write(names)>> \o
    [i \in DOMAIN evs |-> write([j \in DOMAIN fields |-> get(evs[i], fields[j])])]

----------------------------------------------------------------------------
(* main: the calls after read_icalendar. *)

\* remove_malformed(events)
Sanitize ==
    /\ pc = "sanitize"
    /\ events' = remove_malformed(events).events
    /\ diag' = diag \o remove_malformed(events).diag
    /\ pc' = "extract"
    /\ UNCHANGED <<error, no_warn_duplicates, tokenizer, out>>

\* extract_fields(events), then the test of args.no_warn_duplicates
Extract ==
    /\ pc = "extract"
    /\ LET r == extract_fields(events, 1)
       IN  /\ events' = r.val
           /\ error' = r.err
           /\ pc' = IF r.err # "none" THEN "failed"
                    ELSE IF ~no_warn_duplicates THEN "dups" ELSE "exists"
    /\ UNCHANGED <<no_warn_duplicates, tokenizer, diag, out>>

\* check_duplicates(events)
CheckDuplicates ==
    /\ pc = "dups"
    /\ LET r == check_duplicates(events, 0, EmptyDict, <<>>)
       IN  /\ diag' = diag \o r.val
           /\ error' = r.err
           /\ pc' = IF r.err # "none" THEN "failed" ELSE "exists"
    /\ UNCHANGED <<no_warn_duplicates, tokenizer, events, out>>

\* if not args.overwrite: check_if_exists(outfname)
CheckIfExists ==
    /\ pc = "exists"
    /\ \E overwrite \in BOOLEAN, exists \in BOOLEAN, yes \in BOOLEAN :
          IF ~overwrite /\ exists /\ ~yes
          THEN pc' = "failed" /\ error' = "SystemExit"
          ELSE pc' = "write" /\ UNCHANGED error
    /\ UNCHANGED <<no_warn_duplicates, tokenizer, events, diag, out>>

\* write_fields_csv(events, outfname)
Write ==
    /\ pc = "write"
    /\ out' = write_fields_csv(events)
    /\ pc' = "done"
    /\ UNCHANGED <<error, no_warn_duplicates, tokenizer, events, diag>>

\* read_icalendar before its first line, and the rest of main not yet run
TokenizerInit ==
    /\ line = <<>>
    /\ in_event = FALSE
    /\ sublevel = 0
    /\ event = EmptyDict
    /\ field = NoneField
    /\ text = <<>>
    /\ nlines = 0

Init ==
    /\ pc = "read"
    /\ error = "none"
    /\ no_warn_duplicates \in BOOLEAN
    /\ TokenizerInit
    /\ events = <<>>
    /\ diag = <<>>
    /\ out = <<>>

Next ==
    \/ \E l \in Lines : ReadLine(l)
    \/ EndOfFile
    \/ Sanitize
    \/ Extract
    \/ CheckDuplicates
    \/ CheckIfExists
    \/ Write

Spec == Init /\ [][Next]_vars

----------------------------------------------------------------------------
(* The stages of main on event lists of their own: remove_malformed,       *)
(* extract_fields and check_duplicates started on any list of records the  *)
(* stage before can hand over.                                             *)

\* all sequences over S of length at most n
SeqsUpTo(S, n) == UNION {[1..k -> S] : k \in 0..n}

\* all concatenations of at most n of the pieces in P
RECURSIVE Concats(_, _)
Concats(P, n) ==
    IF n = 0 THEN {<<>>}
    ELSE Concats(P, n - 1) \cup {p \o c : p \in P, c \in Concats(P, n - 1)}

\* main at the call of a stage, read_icalendar having returned evs
AtStage(stage, evs) ==
    /\ pc = stage
    /\ error = "none"
    /\ no_warn_duplicates = FALSE
    /\ TokenizerInit
    /\ events = evs
    /\ diag = <<>>
    /\ out = <<>>

Madrid == <<"M","a","d","r","i","d">>
Talk == <<"T","a","l","k">>
SomeTalk == <<"S","o","m","e"," ","t","a","l","k">>
HttpX == <<"h","t","t","p",":","/","/","x">>
Plain == <<"p","l","a","i","n">>
TalkDescription ==
    <<"<","a"," ","h","r","e","f","=","\"","h","t","t","p",":","/","/","x","\"",">",
      "T","a","l","k","<","/","a",">","S","o","m","e"," ","t","a","l","k">>
D20240211 == <<"2","0","2","4","0","2","1","1">>

\* Records as read_icalendar builds them, well-formed and malformed.
RawRecords == {
    LOCATION :> Madrid,
    DESCRIPTION :> Plain,
    DESCRIPTION :> <<>>,
    DESCRIPTION :> (<<" ">> \o A_HREF),
    DESCRIPTION :> A_HREF,
    (DESCRIPTION :> TalkDescription) @@ (DTSTART_VALUE_DATE :> D20240211)
}

InitSanitize == \E evs \in SeqsUpTo(RawRecords, MaxEvents) : AtStage("sanitize", evs)

\* remove_malformed(events) once more, on the list it has already sanitized
SanitizeAgain ==
    /\ pc = "extract"
    /\ events' = remove_malformed(events).events
    /\ diag' = diag \o remove_malformed(events).diag
    /\ pc' = "resanitized"
    /\ UNCHANGED <<error, no_warn_duplicates, tokenizer, out>>

NextSanitize == Sanitize \/ SanitizeAgain

SpecSanitize == InitSanitize /\ [][NextSanitize]_vars

\* The description <a href="L">T</a>D
Description(L, T, D) ==
    A_HREF \o <<"\"">> \o L \o <<"\"", ">">> \o T \o A_CLOSE \o D

\* The free parts of a description: L and T hold no '>' (and so no '</a>').
LinkParts == Concats({<<"x">>, <<"\"">>, HREF}, MaxStr)
TitleParts == Concats({<<"T">>, <<" ">>, <<"\"">>, <<"<","/","a">>}, MaxStr)
RestParts == Concats({<<"d">>, <<" ">>, <<">">>, A_CLOSE}, MaxStr)

X_L == <<"X","-","L">>
X_T == <<"X","-","T">>
X_D == <<"X","-","D">>

\* A record whose DESCRIPTION is <a href="L">T</a>D; the properties X-L, X-T
\* and X-D, which the program does not read, carry the three parts.
LinkRecord(L, T, D) ==
    (DESCRIPTION :> Description(L, T, D)) @@ (DTSTART_VALUE_DATE :> D20240211)
        @@ (X_L :> L) @@ (X_T :> T) @@ (X_D :> D)

DateOnlyValues == {D20240211, <<"2","0","2","4">>}

LocalValues == {
    <<"2","0","2","4","0","2","1","1","T","1","0","0","0","0","0">>,
    <<"2","0","2","4","0","2","3","0","T","1","0","0","0","0","0">>,
    D20240211
}

UtcValues == {
    <<"2","0","2","4","1","2","3","1","T","2","3","3","0","0","0","Z">>,
    <<"2","0","2","4","0","2","2","9","T","2","3","0","0","0","0","Z">>,
    <<"9","9","9","9","1","2","3","1","T","2","3","3","0","0","0","Z">>,
    <<"2","0","2","4","0","2","1","1","T","1","0","0","0","0","0">>
}

\* the record ev with the key k set to each of the values vs, or without k
WithOrWithout(evs, k, vs) == evs \cup {(k :> v) @@ ev : ev \in evs, v \in vs}

\* Sanitized records with every combination of the three date keys.
DateRecords ==
    WithOrWithout(
        WithOrWithout(
            WithOrWithout({DESCRIPTION :> TalkDescription},
                          DTSTART_VALUE_DATE, DateOnlyValues),
            DTSTART_TZID_MADRID, LocalValues),
        DTSTART, UtcValues)

InitExtract ==
    \/ \E evs \in SeqsUpTo(DateRecords, 1) : AtStage("extract", evs)
    \/ \E L \in LinkParts, T \in TitleParts, D \in RestParts :
          AtStage("extract", <<LinkRecord(L, T, D)>>)

NextExtract == Extract

SpecExtract == InitExtract /\ [][NextExtract]_vars

\* Records as extract_fields leaves them, with and without a LOCATION.
ExtractedRecords ==
    LET base(t) == (TITLE :> t) @@ (DESCRIPTION :> SomeTalk) @@ (LINK :> HttpX)
    IN  {base(Talk) @@ (LOCATION :> Madrid),
         base(Talk) @@ (LOCATION :> <<>>),
         base(<<>>) @@ (LOCATION :> Madrid),
         base(Talk)}

InitDuplicates ==
    \E evs \in SeqsUpTo(ExtractedRecords, MaxEvents) : AtStage("dups", evs)

NextDuplicates == CheckDuplicates

SpecDuplicates == InitDuplicates /\ [][NextDuplicates]_vars

----------------------------------------------------------------------------
(* extract_fields on one sanitized event whose only date key is bare       *)
(* DTSTART or DTSTART;TZID=Europe/Madrid, with a valid timestamp.          *)

Years == {1000, 2023, 2024, 9999}
Months == 1..12
Days == {1, 28, 29, 30, 31}
Hours == {0, 12, 22, 23}
Minutes == {0, 30, 59}
Seconds == {0, 59}

\* the timestamp in the layout YYYYMMDDTHHMMSS
Stamp(Y, m, d, H, M, S) ==
    Pad4(Y) \o Pad2(m) \o Pad2(d) \o <<"T">> \o Pad2(H) \o Pad2(M) \o Pad2(S)

InitDate ==
    \E Y \in Years, m \in Months, d \in Days, H \in Hours, M \in Minutes,
       S \in Seconds, utc \in BOOLEAN :
        /\ d <= DaysIn(Y, m)
        /\ AtStage("extract",
               <<(DESCRIPTION :> TalkDescription)
                   @@ (IF utc THEN (DTSTART :> Stamp(Y, m, d, H, M, S) \o <<"Z">>)
                       ELSE (DTSTART_TZID_MADRID :> Stamp(Y, m, d, H, M, S)))>>)

NextDate == Extract

SpecDate == InitDate /\ [][NextDate]_vars

----------------------------------------------------------------------------
(* main after read_icalendar, on any list of at most MaxEvents events each *)
(* of which carries its position in the file in its UID property.          *)

UID == <<"U","I","D">>

\* the records read_icalendar builds of four kinds of VEVENT: two talks that
\* differ in their LOCATION, one with a plain DESCRIPTION, one without
ParsedRecords ==
    LET talk == (DESCRIPTION :> TalkDescription) @@ (DTSTART_VALUE_DATE :> D20240211)
    IN  {talk @@ (LOCATION :> Madrid),
         talk @@ (LOCATION :> <<>>),
         (DESCRIPTION :> Plain) @@ (LOCATION :> Madrid),
         LOCATION :> Madrid}

\* the Event List of a file whose i-th VEVENT has the line UID:i
Numbered(evs) == [i \in DOMAIN evs |-> evs[i] @@ (UID :> <<Digits[i + 1]>>)]

InitPipeline ==
    \E evs \in SeqsUpTo(ParsedRecords, MaxEvents) : AtStage("sanitize", Numbered(evs))

NextPipeline ==
    \/ Sanitize
    \/ Extract
    \/ CheckDuplicates
    \/ CheckIfExists
    \/ Write

SpecPipeline == InitPipeline /\ [][NextPipeline]_vars

----------------------------------------------------------------------------
(* read_icalendar inside an event, a LOCATION line with any text of        *)
(* backslashes, commas and letters n just read (or only BEGIN:VEVENT       *)
(* read), followed by lines that flush the pending field or unfold onto it. *)

MaxText == 4

EscPieces == {<<"\\">>, <<",">>, <<"n">>}

PropertyLine(k, t) == k \o <<":">> \o t \o <<"\n">>

\* the lines that follow: a sub-component, the end of the event, a property
\* line with a ':' in its text and a continuation line of two spaces, a
\* colon, an escaped line break and an escaped comma
FieldLines == {
    <<"B","E","G","I","N",":","V","A","L","A","R","M","\n">>,
    <<"E","N","D",":","V","E","V","E","N","T","\n">>,
    <<"L","O","C","A","T","I","O","N",":","a",":","\\",",","b","\n">>,
    <<" "," ",":","\\","n","\\",",","\n">>
}

\* the tokenizer after the lines BEGIN:VEVENT, earlier (LOCATION lines), and
\* LOCATION:t when pending, or after BEGIN:VEVENT alone
InEvent(earlier, pending, t) ==
    /\ pc = "read"
    /\ error = "none"
    /\ no_warn_duplicates = FALSE
    /\ in_event = TRUE
    /\ sublevel = 0
    /\ events = <<>>
    /\ diag = <<>>
    /\ out = <<>>
    /\ IF pending
       THEN /\ line = PropertyLine(LOCATION, t)
            /\ field = Some(LOCATION)
            /\ text = t
            /\ event = IF earlier = <<>> THEN EmptyDict
                       ELSE (LOCATION :> unescape(earlier[Len(earlier)]))
            /\ nlines = 2 + Len(earlier)
       ELSE /\ line = BEGIN_VEVENT \o <<"\n">>
            /\ field = NoneField
            /\ text = <<>>
            /\ event = EmptyDict
            /\ nlines = 1

InitField ==
    \/ \E t \in Concats(EscPieces, MaxText), earlier \in {<<>>, <<Madrid>>} :
           InEvent(earlier, TRUE, t)
    \/ InEvent(<<>>, FALSE, <<>>)

NextField == \E l \in FieldLines : ReadLine(l)

SpecField == InitField /\ [][NextField]_vars

----------------------------------------------------------------------------
(* Claims. *)

\* Scenario A: the record read_icalendar builds, and the record after
\* extract_fields
ScenarioARead == (DESCRIPTION :> TalkDescription) @@ (DTSTART_VALUE_DATE :> D20240211)

ScenarioAExtracted ==
    (TITLE :> Talk) @@ (DESCRIPTION :> SomeTalk) @@ (LINK :> HttpX)
        @@ (DATE :> <<"1","1","/","0","2","/","2","0","2","4">>)
        @@ (DTSTART_VALUE_DATE :> D20240211)

ScenarioAOutput == <<
    <<"\"","T","i'","t","u","l","o","\"",",",
      "\"","D","e","s","c","r","i","p","c","i","o'","n","\"",",",
      "\"","F","e","c","h","a","\"",",","\"","L","u","g","a","r","\"",",",
      "\"","E","n","l","a","c","e","\"","\n">>,
    <<"\"","T","a","l","k","\"",",","\"","S","o","m","e"," ","t","a","l","k","\"",",",
      "\"","1","1","/","0","2","/","2","0","2","4","\"",",","\"","\"",",",
      "\"","h","t","t","p",":","/","/","x","\"","\n">> >>

\* C1: with the duplicate warning enabled, once read_icalendar has returned
\* the single event of Scenario A, no later call of main raises (the run can
\* only stop where the user declines to overwrite an existing output file),
\* and the file it writes is the header row followed by the row
\* "Talk","Some talk","11/02/2024","","http://x".
C1_ScenarioAWritten ==
    [][(/\ ~no_warn_duplicates
        /\ pc \in {"sanitize", "extract", "dups", "exists", "write"}
        /\ events \in {<<ScenarioARead>>, <<ScenarioAExtracted>>})
       => /\ pc' = "failed" => error' = "SystemExit"
          /\ pc' = "done" => out' = ScenarioAOutput]_vars

\* C2: check_duplicates returns normally on every list it is handed, leaves
\* the list and the output untouched, and so the rows written are those of a
\* run that skips it.
C2_DuplicatesAdvisory ==
    [][pc = "dups"
       => /\ pc' = "exists"
          /\ error' = "none"
          /\ events' = events
          /\ out' = out]_vars

\* C3: a line read inside an event at sublevel > 0 leaves the record of that
\* event as it is (the record stays the one under construction, or END:VEVENT
\* appends it unchanged to the Event List), and a line that is neither a
\* BEGIN: nor an END: line leaves the pending key and text alone as well, so
\* that nothing of it can reach the record later.
C3_NestedLinesIgnored ==
    [][(pc = "read" /\ in_event /\ sublevel > 0 /\ nlines' = nlines + 1)
       => /\ \/ event' = event /\ events' = events
             \/ StartsWith(line', END_VEVENT) /\ events' = Append(events, event)
          /\ (~StartsWith(line', BEGIN_) /\ ~StartsWith(line', END_))
                => field' = field /\ text' = text /\ pc' = "read"]_vars

\* C3 witness: a LOCATION property line has been read inside a sub-component
\* of an event that already holds a field, and the record has no LOCATION
C3_Witness ==
    /\ pc = "read"
    /\ in_event
    /\ sublevel > 0
    /\ line = <<"L","O","C","A","T","I","O","N",":","M","a","d","r","i","d","\n">>
    /\ Has(event, DESCRIPTION)
    /\ ~Has(event, LOCATION)

\* whether the quoted link L begins or ends with a double quote
QuoteAtAnEnd(L) == L # <<>> /\ (Head(L) = "\"" \/ L[Len(L)] = "\"")

\* the records of the list whose DESCRIPTION is <a href="L">T</a>D for the
\* parts L, T and D they carry
IsLinkRecord(ev) ==
    /\ {X_L, X_T, X_D, DESCRIPTION} \subseteq DOMAIN ev
    /\ ev[DESCRIPTION] = Description(ev[X_L], ev[X_T], ev[X_D])
    /\ \A i \in DOMAIN ev[X_L] : ev[X_L][i] # ">"
    /\ \A i \in DOMAIN ev[X_T] : ev[X_T][i] # ">"

\* what extract_fields is claimed to leave in the record ev2 of the record ev
TitleLinkRestOf(ev, ev2) ==
    /\ {TITLE, LINK, DESCRIPTION} \subseteq DOMAIN ev2
    /\ ev2[TITLE] = Strip(ev[X_T])
    /\ ev2[LINK] = ev[X_L]
    /\ ev2[DESCRIPTION] = Strip(ev[X_D])

\* C4 as stated: for every description <a href="L">T</a>D with no '>' in L
\* and T, extraction leaves TITLE = T trimmed, LINK = L and DESCRIPTION = D
\* trimmed.
C4_Original ==
    [][pc = "extract"
       => \A i \in DOMAIN events :
             IsLinkRecord(events[i]) => TitleLinkRestOf(events[i], events'[i])]_vars

\* C4 amended: the same, for every L that neither begins nor ends with a
\* double quote.
C4_TitleLinkRest ==
    [][pc = "extract"
       => \A i \in DOMAIN events :
             (IsLinkRecord(events[i]) /\ ~QuoteAtAnEnd(events[i][X_L]))
                => TitleLinkRestOf(events[i], events'[i])]_vars

\* C4 witness: extraction has run on a description whose link holds a second
\* href=, whose title has a blank before it and whose rest holds a further </a>
C4_Witness ==
    /\ pc = "dups"
    /\ Len(events) = 1
    /\ X_L \in DOMAIN events[1]
    /\ events[1][X_L] = HREF \o <<"x">>
    /\ events[1][LINK] = HREF \o <<"x">>
    /\ events[1][X_T] = <<" ", "T">>
    /\ events[1][TITLE] = <<"T">>
    /\ events[1][X_D] = <<" ">> \o A_CLOSE
    /\ events[1][DESCRIPTION] = A_CLOSE

\* The DATE expected of each value of the three date keys: the text, or the
\* name of the exception where the value is not of the key's form.
Expect(e, d) == [err |-> e, date |-> d]

DateOnlyExpected ==
    (D20240211 :> Expect("none", <<"1","1","/","0","2","/","2","0","2","4">>))
        @@ (<<"2","0","2","4">> :> Expect("none", <<"/","/","2","0","2","4">>))

LocalExpected ==
    (<<"2","0","2","4","0","2","1","1","T","1","0","0","0","0","0">>
        :> Expect("none",
                  <<"1","1","/","0","2","/","2","0","2","4"," ","1","0",":","0","0">>))
    @@ (<<"2","0","2","4","0","2","3","0","T","1","0","0","0","0","0">>
        :> Expect("ValueError", <<>>))
    @@ (D20240211 :> Expect("ValueError", <<>>))

UtcExpected ==
    (<<"2","0","2","4","1","2","3","1","T","2","3","3","0","0","0","Z">>
        :> Expect("none",
                  <<"0","1","/","0","1","/","2","0","2","5"," ","0","0",":","3","0">>))
    @@ (<<"2","0","2","4","0","2","2","9","T","2","3","0","0","0","0","Z">>
        :> Expect("none",
                  <<"0","1","/","0","3","/","2","0","2","4"," ","0","0",":","0","0">>))
    @@ (<<"9","9","9","9","1","2","3","1","T","2","3","3","0","0","0","Z">>
        :> Expect("OverflowError", <<>>))
    @@ (<<"2","0","2","4","0","2","1","1","T","1","0","0","0","0","0">>
        :> Expect("ValueError", <<>>))

\* the step has left the expected DATE in the record ev2, or has raised the
\* expected exception
DateAsExpected(expected, ev2, err) ==
    /\ err = expected.err
    /\ expected.err = "none" => Has(ev2, DATE) /\ ev2[DATE] = expected.date

\* C5: extract_fields on a single record takes DATE from DTSTART;VALUE=DATE
\* alone when the record has that key, whatever the other two keys hold;
\* otherwise from DTSTART;TZID=Europe/Madrid alone when the record has that
\* key; otherwise from DTSTART.
C5_DatePrecedence ==
    [][(pc = "extract" /\ Len(events) = 1
            /\ DOMAIN events[1] \cap {DTSTART_VALUE_DATE, DTSTART_TZID_MADRID, DTSTART} # {})
       => LET ev == events[1]
              ev2 == events'[1]
          IN  IF Has(ev, DTSTART_VALUE_DATE)
              THEN DateAsExpected(DateOnlyExpected[ev[DTSTART_VALUE_DATE]], ev2, error')
              ELSE IF Has(ev, DTSTART_TZID_MADRID)
              THEN DateAsExpected(LocalExpected[ev[DTSTART_TZID_MADRID]], ev2, error')
              ELSE DateAsExpected(UtcExpected[ev[DTSTART]], ev2, error')]_vars

\* C5 witness: a record with DTSTART;VALUE=DATE = 20240211 beside a DTSTART
\* of 31 December and a TZID date that does not parse has been extracted,
\* and its DATE is 11/02/2024
C5_Witness ==
    /\ pc = "dups"
    /\ Len(events) = 1
    /\ {DTSTART_VALUE_DATE, DTSTART_TZID_MADRID, DTSTART} \subseteq DOMAIN events[1]
    /\ events[1][DTSTART_VALUE_DATE] = D20240211
    /\ events[1][DTSTART_TZID_MADRID] = D20240211
    /\ events[1][DTSTART]
           = <<"2","0","2","4","1","2","3","1","T","2","3","3","0","0","0","Z">>
    /\ events[1][DATE] = <<"1","1","/","0","2","/","2","0","2","4">>


\* the sublist of the events that have a DESCRIPTION starting with <a href=
RECURSIVE WellFormedOnly(_)
WellFormedOnly(evs) ==
    IF evs = <<>> THEN <<>>
    ELSE (IF DESCRIPTION \in DOMAIN Head(evs)
             /\ Len(Head(evs)[DESCRIPTION]) >= 8
             /\ SubSeq(Head(evs)[DESCRIPTION], 1, 8) = A_HREF
          THEN <<Head(evs)>> ELSE <<>>) \o WellFormedOnly(Tail(evs))

\* C6: remove_malformed leaves exactly the events that have a DESCRIPTION
\* starting with <a href=, in their original order.
C6_OnlyMalformedRemoved ==
    [][pc = "sanitize" => events' = WellFormedOnly(events)]_vars

\* C6 witness: the first two events of a list of three were malformed and
\* adjacent, both have been reported and only the third event is left
C6_Witness ==
    /\ pc = "extract"
    /\ Len(diag) = 2
    /\ diag[1].pos = 1
    /\ diag[2].pos = 2
    /\ events = <<ScenarioARead>>

\* C7: remove_malformed applied to a list it has already sanitized removes
\* no event and prints no message.
C7_SanitizerIdempotent ==
    [][(pc = "extract" /\ pc' = "resanitized") => events' = events /\ diag' = diag]_vars

\* C7 witness: a second pass has run on a list from which the first pass
\* removed the first and the last event
C7_Witness ==
    /\ pc = "resanitized"
    /\ Len(events) = 1
    /\ Len(diag) = 2
    /\ diag[1].pos = 1
    /\ diag[2].pos = 3

\* the events of evs before position p with the TITLE and LOCATION of evs[p]
EarlierSame(evs, p) ==
    {q \in 1..(p - 1) :
        /\ {TITLE, LOCATION} \subseteq DOMAIN evs[q] \cap DOMAIN evs[p]
        /\ evs[q][TITLE] = evs[p][TITLE]
        /\ evs[q][LOCATION] = evs[p][LOCATION]}

\* C8: after the pass of check_duplicates the event at position P has a
\* duplicate message if and only if an earlier event has its TITLE and
\* LOCATION, and the message names the first such event.
C8_DuplicateOfFirst ==
    [][pc = "dups"
       => \A p \in DOMAIN events :
             /\ (\E i \in DOMAIN diag' : diag'[i].kind = "Duplicate" /\ diag'[i].pos = p)
                    <=> EarlierSame(events, p) # {}
             /\ \A i \in DOMAIN diag' :
                    (diag'[i].kind = "Duplicate" /\ diag'[i].pos = p)
                        => /\ diag'[i].of \in EarlierSame(events, p)
                           /\ \A q \in EarlierSame(events, p) : diag'[i].of <= q]_vars

\* whether the record has one of the three date keys
HasDateKey(ev) ==
    DOMAIN ev \cap {DTSTART_VALUE_DATE, DTSTART_TZID_MADRID, DTSTART} # {}

\* a line that read_icalendar splits inside an event at sublevel 0 and that
\* holds no ':'
Unsplittable(l) ==
    /\ ~(Len(l) >= 1 /\ l[1] = " ")
    /\ ~(Len(l) >= 6 /\ SubSeq(l, 1, 6) = BEGIN_)
    /\ ~(Len(l) >= 4 /\ SubSeq(l, 1, 4) = END_)
    /\ \A i \in DOMAIN l : l[i] # ":"

\* C9: extract_fields raises when a surviving event has none of the three
\* date keys, read_icalendar when it splits a line without ':'; a step that
\* raises writes nothing and is the last step of the run; and the output
\* file changes only in the call of write_fields_csv, which main reaches
\* with no exception raised and with every event extracted.
C9_FatalErrorsWriteNothing ==
    [][/\ (pc = "extract" /\ \E i \in DOMAIN events : ~HasDateKey(events[i]))
            => pc' = "failed" /\ error' # "none"
       /\ (pc = "read" /\ in_event /\ sublevel = 0 /\ nlines' = nlines + 1
              /\ Unsplittable(line'))
            => pc' = "failed" /\ error' = "ValueError"
       /\ pc' = "failed" => out' = <<>>
       /\ pc = "failed" => vars' = vars
       /\ out' # out
            => /\ pc = "write" /\ pc' = "done" /\ error = "none"
               /\ \A i \in DOMAIN events :
                     {TITLE, LINK, DATE} \subseteq DOMAIN events[i]]_vars

\* C9 witness: the run has stopped in extract_fields on an event without a
\* date, and nothing is written
C9_Witness ==
    /\ pc = "failed"
    /\ error = "RuntimeError"
    /\ nlines > 0
    /\ Len(events) = 1
    /\ ~HasDateKey(events[1])
    /\ out = <<>>

\* C10: an iteration of read_icalendar raises if and only if it reads, inside
\* an event at sublevel 0, a line that starts neither with a space nor with
\* BEGIN: nor with END: and holds no ':'; every other iteration goes on to
\* the next line, from where the end of the file returns the event list.
C10_OnlySplitFails ==
    [][(pc = "read" /\ nlines' = nlines + 1)
       => /\ pc' = "failed" <=> (in_event /\ sublevel = 0 /\ Unsplittable(line'))
          /\ pc' # "failed" => pc' = "read" /\ error' = "none"]_vars

\* C10 witness: read_icalendar has raised on the line X-JUNK
C10_Witness ==
    /\ pc = "failed"
    /\ error = "ValueError"
    /\ line = <<"X","-","J","U","N","K","\n">>

----------------------------------------------------------------------------
(* Unfolding and the field flush. *)

\* t read in one pass from the left: a backslash and a comma give a comma, a
\* backslash and a letter n give a line break, any other character itself
RECURSIVE Unescaped(_)
Unescaped(t) ==
    IF t = <<>> THEN <<>>
    ELSE IF Len(t) >= 2 /\ t[1] = "\\" /\ t[2] = ","
    THEN <<",">> \o Unescaped(SubSeq(t, 3, Len(t)))
    ELSE IF Len(t) >= 2 /\ t[1] = "\\" /\ t[2] = "n"
    THEN <<"\n">> \o Unescaped(SubSeq(t, 3, Len(t)))
    ELSE <<t[1]>> \o Unescaped(Tail(t))

\* a step of the tokenizer that reads one more line inside an event
ReadsInEvent == pc = "read" /\ in_event /\ nlines' = nlines + 1

IsContinuation(l) == l # <<>> /\ l[1] = " "

\* the continuation line l without its first space and its line end
Content(l) == SubSeq(l, 2, IF l[Len(l)] = "\n" THEN Len(l) - 1 ELSE Len(l))

\* l is key, ':', rest and the line end, with no ':' in key
IsProperty(l, key, rest) ==
    /\ l = key \o <<":">> \o rest \o <<"\n">>
    /\ \A i \in DOMAIN key : key[i] # ":"

\* the line l, read in the state before the step, flushes the pending field
Flushes(l) ==
    \/ StartsWith(l, END_VEVENT)
    \/ StartsWith(l, BEGIN_)
    \/ sublevel = 0 /\ ~StartsWith(l, END_) /\ ~IsContinuation(l)

\* the record a flushing step leaves: the one appended by END:VEVENT, or
\* else the record of the event being read
Flushed == IF StartsWith(line', END_VEVENT) THEN events'[Len(events')] ELSE event'

\* the line read before this one opened or closed a component, so that the
\* line read now does not directly follow a property line
AfterComponentLine == StartsWith(line, BEGIN_) \/ StartsWith(line, END_)

\* C11: a property line KEY:V0 read at sublevel 0 makes KEY the pending key
\* and V0 (all after the first ':') the pending text; each continuation line
\* that directly follows appends its content, one leading space removed and
\* the rest verbatim; a continuation line that does not directly follow the
\* property line or one of its continuation lines adds nothing to the field;
\* and the flush stores under KEY the unescaped text, so that the finalized
\* record maps KEY to unescape(V0 + C1 + ... + Cn).
C11_Unfolding ==
    [][ReadsInEvent =>
          /\ \A i \in 1..Len(line') :
                (sublevel = 0 /\ IsProperty(line', SubSeq(line', 1, i - 1),
                                            SubSeq(line', i + 1, Len(line') - 1))
                    /\ ~StartsWith(line', BEGIN_) /\ ~StartsWith(line', END_)
                    /\ ~IsContinuation(line'))
                => /\ field' = Some(SubSeq(line', 1, i - 1))
                   /\ text' = SubSeq(line', i + 1, Len(line') - 1)
          /\ (IsContinuation(line') /\ field # NoneField)
                => /\ field' = field
                   /\ text' = IF sublevel = 0 /\ ~AfterComponentLine
                              THEN text \o Content(line')
                              ELSE text
          /\ (Flushes(line') /\ field # NoneField)
                => /\ Has(Flushed, field[1])
                   /\ Flushed[field[1]] = Unescaped(text)
       ]_vars

\* C12: a flush with no pending key leaves the record as it is; a flush
\* with a pending key stores under it the pending text with every
\* backslash-comma turned into a comma, every backslash-n into a line break
\* and nothing else changed, in place of any earlier value and with every
\* other key kept; a flush at a BEGIN: line keeps the pending key and the raw
\* text, so that a field flushed again is unescaped from the raw text, once;
\* and no other line changes the record.
C12_FieldFlush ==
    [][ReadsInEvent =>
          IF Flushes(line')
          THEN /\ IF field = NoneField
                  THEN Flushed = event
                  ELSE /\ DOMAIN Flushed = DOMAIN event \cup {field[1]}
                       /\ Flushed[field[1]] = Unescaped(text)
                       /\ \A k \in DOMAIN event \ {field[1]} : Flushed[k] = event[k]
               /\ StartsWith(line', BEGIN_) /\ ~StartsWith(line', BEGIN_VEVENT)
                     => field' = field /\ text' = text
          ELSE event' = event /\ events' = events
       ]_vars

\* a pending LOCATION whose raw text is backslash, backslash, comma, n has
\* been flushed by two BEGIN: lines in a row and reads backslash, comma, n
C12_Witness ==
    /\ pc = "read" /\ in_event /\ sublevel = 2
    /\ field = Some(LOCATION)
    /\ text = <<"\\", "\\", ",", "n">>
    /\ Has(event, LOCATION)
    /\ event[LOCATION] = <<"\\", ",", "n">>

----------------------------------------------------------------------------
(* The hour added to a bare DTSTART. *)

LeapYear(y) == IF y % 400 = 0 THEN TRUE ELSE IF y % 100 = 0 THEN FALSE ELSE y % 4 = 0

MonthLengths(y) ==
    <<31, IF LeapYear(y) THEN 29 ELSE 28, 31, 30, 31, 30, 31, 31, 30, 31, 30, 31>>

RECURSIVE DaysBefore(_, _)
DaysBefore(y, m) == IF m = 1 THEN 0 ELSE DaysBefore(y, m - 1) + MonthLengths(y)[m - 1]

\* the hours from the start of 1 January of year 1 to the start of the hour H
\* of the day d/m/y
HourNumber(y, m, d, H) ==
    LET p == y - 1
    IN  24 * (365 * p + (p \div 4) - (p \div 100) + (p \div 400)
              + DaysBefore(y, m) + (d - 1)) + H

\* the year, month, day, hour and minute of a value YYYYMMDDTHHMMSS...
OfStamp(v) ==
    [Y |-> Num(SubSeq(v, 1, 4)), m |-> Num(SubSeq(v, 5, 6)), d |-> Num(SubSeq(v, 7, 8)),
     H |-> Num(SubSeq(v, 10, 11)), M |-> Num(SubSeq(v, 12, 13))]

\* s has the layout DD/MM/YYYY HH:MM
IsDateTime(s) ==
    /\ Len(s) = 16
    /\ s[3] = "/" /\ s[6] = "/" /\ s[11] = " " /\ s[14] = ":"
    /\ \A i \in (1..16) \ {3, 6, 11, 14} : IsDigit(s[i])

\* the year, month, day, hour and minute of a text DD/MM/YYYY HH:MM
OfDateTime(s) ==
    [Y |-> Num(SubSeq(s, 7, 10)), m |-> Num(SubSeq(s, 4, 5)), d |-> Num(SubSeq(s, 1, 2)),
     H |-> Num(SubSeq(s, 12, 13)), M |-> Num(SubSeq(s, 15, 16))]

\* t names an hour and minute of a day of the calendar
OnCalendar(t) ==
    /\ t.Y >= 1 /\ t.m \in 1..12 /\ t.d >= 1 /\ t.d <= MonthLengths(t.Y)[t.m]
    /\ t.H \in 0..23 /\ t.M \in 0..59

\* the text date is the minute one hour (hours = 1) or no time (hours = 0)
\* after the timestamp v
Later(v, date, hours) ==
    /\ IsDateTime(date)
    /\ OnCalendar(OfDateTime(date))
    /\ OfDateTime(date).M = OfStamp(v).M
    /\ HourNumber(OfDateTime(date).Y, OfDateTime(date).m, OfDateTime(date).d,
                  OfDateTime(date).H)
         = HourNumber(OfStamp(v).Y, OfStamp(v).m, OfStamp(v).d, OfStamp(v).H) + hours

\* extract_fields has run on a single event
Extracted == pc # "extract" /\ Len(events) = 1

\* the last hour of 31 December 9999
LastHour(v) == SubSeq(v, 1, 11) = <<"9","9","9","9","1","2","3","1","T","2","3">>

\* C13 as stated: every valid bare DTSTART gives the DATE one hour later,
\* every valid DTSTART;TZID=Europe/Madrid the DATE of the same minute.
C13_Original ==
    Extracted =>
        /\ Has(events[1], DTSTART) =>
              /\ error = "none"
              /\ Has(events[1], DATE)
              /\ Later(events[1][DTSTART], events[1][DATE], 1)
        /\ Has(events[1], DTSTART_TZID_MADRID) =>
              /\ error = "none"
              /\ Has(events[1], DATE)
              /\ Later(events[1][DTSTART_TZID_MADRID], events[1][DATE], 0)

\* C13: a valid bare DTSTART of the years 1000 to 9999 before 23:00 on
\* 31 December 9999 gives the DATE one hour later, carried into the next
\* day, month and year; one in the last hour of 31 December 9999 ends the
\* run with OverflowError and no DATE; a valid DTSTART;TZID=Europe/Madrid
\* gives the DATE of the same minute.
C13_OneHourLater ==
    Extracted =>
        /\ Has(events[1], DTSTART) =>
              IF LastHour(events[1][DTSTART])
              THEN pc = "failed" /\ error = "OverflowError" /\ ~Has(events[1], DATE)
              ELSE /\ error = "none"
                   /\ Has(events[1], DATE)
                   /\ Later(events[1][DTSTART], events[1][DATE], 1)
        /\ Has(events[1], DTSTART_TZID_MADRID) =>
              /\ error = "none"
              /\ Has(events[1], DATE)
              /\ Later(events[1][DTSTART_TZID_MADRID], events[1][DATE], 0)

\* 23:30 on 31 December 2024 has become 00:30 on 1 January 2025
C13_Witness ==
    /\ Extracted
    /\ Has(events[1], DTSTART)
    /\ events[1][DTSTART]
         = <<"2","0","2","4","1","2","3","1","T","2","3","3","0","0","0","Z">>
    /\ Has(events[1], DATE)
    /\ events[1][DATE]
         = <<"0","1","/","0","1","/","2","0","2","5"," ","0","0",":","3","0">>

----------------------------------------------------------------------------
(* The nesting of components. *)

\* C14: inside an event at sublevel > 0 a BEGIN: line adds one to sublevel,
\* an END: line, END:VEVENT included, takes one from it, and neither ends
\* the event nor appends to the Event List.
C14_NestedBeginEnd ==
    [][(ReadsInEvent /\ sublevel > 0) =>
          /\ StartsWith(line', BEGIN_) => sublevel' = sublevel + 1
          /\ StartsWith(line', END_) => sublevel' = sublevel - 1
          /\ (StartsWith(line', BEGIN_) \/ StartsWith(line', END_))
                => in_event' /\ events' = events
       ]_vars

\* the record a flush of the pending field makes of the record of the event
WithPending ==
    IF field = NoneField THEN event
    ELSE [k \in DOMAIN event \cup {field[1]} |->
              IF k = field[1] THEN Unescaped(text) ELSE event[k]]

\* C15: END:VEVENT read inside an event at sublevel 0 appends the record,
\* the pending field flushed into it, as the last element of the Event List
\* and leaves the tokenizer outside an event with an empty record, no
\* pending key and an empty pending text; outside an event a line starting
\* with BEGIN:VEVENT enters an event and changes nothing else, and any other
\* line changes nothing.
C15_EndOfEvent ==
    [][(pc = "read" /\ nlines' = nlines + 1) =>
          /\ (in_event /\ sublevel = 0 /\ StartsWith(line', END_VEVENT))
                => /\ events' = Append(events, WithPending)
                   /\ ~in_event'
                   /\ event' = EmptyDict
                   /\ field' = NoneField
                   /\ text' = <<>>
                   /\ sublevel' = 0
          /\ ~in_event
                => /\ in_event' = StartsWith(line', BEGIN_VEVENT)
                   /\ UNCHANGED <<sublevel, event, field, text, events>>
       ]_vars

\* two events have ended, the first with LOCATION:Madrid pending, the second
\* empty, and stand in the list in that order
C15_Witness ==
    /\ pc = "read" /\ ~in_event /\ sublevel = 0
    /\ StartsWith(line, END_VEVENT)
    /\ events = <<(LOCATION :> Madrid), EmptyDict>>
    /\ event = EmptyDict /\ field = NoneField /\ text = <<>>

\* C18: a BEGIN: line read inside an event at sublevel 0 sets sublevel to 1
\* and stores the pending text, unescaped, under the pending key; once the
\* sub-component has been closed again (the line read last starts with END:
\* and sublevel is back at 0) the record still holds that value for the key,
\* and a continuation line read then extends no field: the pending key and
\* text stay as they were flushed, and the record is not touched.
C18_BeginCompletesField ==
    [][ReadsInEvent =>
          /\ (sublevel = 0 /\ StartsWith(line', BEGIN_))
                => /\ sublevel' = 1
                   /\ event' = WithPending
          /\ (sublevel = 0 /\ field # NoneField /\ StartsWith(line, END_))
                => /\ Has(event, field[1])
                   /\ event[field[1]] = Unescaped(text)
                   /\ IsContinuation(line')
                         => /\ event' = event
                            /\ field' = field
                            /\ Unescaped(text') = event[field[1]]
       ]_vars

\* C19: sublevel is never negative.
C19_SublevelNonNegative == sublevel >= 0

\* C20: outside an event sublevel is 0.
C20_OutsideAtTopLevel == ~in_event => sublevel = 0

----------------------------------------------------------------------------
(* Positions in the messages, and the order of the stages. *)

\* the position in the file of an event of SpecPipeline
PositionOf(ev) == Num(ev[UID])

FromSanitizer(msg) == msg.kind \in {"NoDescription", "BadDescription"}

\* the positions the sanitizer has named
Skipped == {diag[i].pos : i \in {j \in DOMAIN diag : FromSanitizer(diag[j])}}

\* the positions in the file of the events still in the list
Kept == {PositionOf(events[i]) : i \in DOMAIN events}

\* some event of the list read at position p of the file
AtPosition(p) == CHOOSE ev \in {events[i] : i \in DOMAIN events} : PositionOf(ev) = p

\* C16: every message names events by their positions in the list as parsed:
\* once the sanitizer has run, the positions it has named and the positions
\* of the events kept are apart and together all the positions of the file,
\* and a duplicate message names the position in the file of an event kept
\* and that of an earlier event kept with the same TITLE and LOCATION.
C16_PositionsAsParsed ==
    pc # "sanitize" =>
        /\ Skipped \cap Kept = {}
        /\ Skipped \cup Kept = 1..(Cardinality(Skipped) + Len(events))
        /\ \A i \in DOMAIN diag :
              diag[i].kind = "Duplicate" =>
                  /\ diag[i].pos \in Kept
                  /\ diag[i].of \in Kept
                  /\ diag[i].of < diag[i].pos
                  /\ AtPosition(diag[i].pos)[TITLE] = AtPosition(diag[i].of)[TITLE]
                  /\ AtPosition(diag[i].pos)[LOCATION] = AtPosition(diag[i].of)[LOCATION]

\* C17: when extract_fields starts, every event of the list has a
\* DESCRIPTION starting with '<a href=', and from then on no event the
\* sanitizer has skipped is in the list that is extracted, checked for
\* duplicates and written: the file has the header and one row per event
\* of that list.
C17_SanitizedBeforeExtraction ==
    /\ pc = "extract" =>
          \A i \in DOMAIN events :
              /\ Has(events[i], DESCRIPTION)
              /\ StartsWith(events[i][DESCRIPTION], A_HREF)
    /\ pc # "sanitize" => Skipped \cap Kept = {}
    /\ out # <<>> => pc = "done" /\ Len(out) = Len(events) + 1
    /\ pc \in {"sanitize", "extract"} =>
          \A i \in DOMAIN events : ~Has(events[i], TITLE)

\* a file of three events, the second skipped by the sanitizer, has been
\* written with two rows
C17_Witness ==
    /\ pc = "done"
    /\ Skipped = {2}
    /\ Kept = {1, 3}
    /\ Len(out) = 3

====
